---- MODULE Spec2Model ----
(***************************************************************************)
(* One invocation of the Pixela habit tracker CLI (src/main.py): the       *)
(* environment is read, argv is parsed, one operation runs up to the HTTP  *)
(* request, and the remote outcome ends the process.                       *)
(*                                                                         *)
(* Python strings that the code inspects (dates, graph ids, account name,  *)
(* token, url) are sequences of one-character strings.  Strings the code   *)
(* only passes through (quantity, name, unit, response text) are atoms.    *)
(***************************************************************************)
EXTENDS Integers, Sequences, FiniteSets, TLC

VARIABLES env, pc, args, resolved, request, sent, response, stdout, stderr, exitCode

vars == <<env, pc, args, resolved, request, sent, response, stdout, stderr, exitCode>>

(* ------------------------------ strings ------------------------------ *)

\* Optional[str]: None has set = FALSE; its val is the empty string so that
\* Python truthiness is "val is not empty" for None and "" alike.
None == [set |-> FALSE, val |-> <<>>]

Some(s) == [set |-> TRUE, val |-> s]

Truthy(o) == o.val # <<>>

IsSpace(c) == c = " "

RECURSIVE LStrip(_)
LStrip(s) == IF s # <<>> /\ IsSpace(Head(s)) THEN LStrip(Tail(s)) ELSE s

RECURSIVE RStrip(_)
RStrip(s) ==
    IF s # <<>> /\ IsSpace(s[Len(s)]) THEN RStrip(SubSeq(s, 1, Len(s) - 1)) ELSE s

\* str.strip()
Strip(s) == RStrip(LStrip(s))

Digits == <<"0", "1", "2", "3", "4", "5", "6", "7", "8", "9">>

IsDigit(c) == \E i \in 1..10 : Digits[i] = c

DigitVal(c) == (CHOOSE i \in 1..10 : Digits[i] = c) - 1

DigitChar(n) == Digits[n + 1]

(* ------------------------------ config ------------------------------- *)

PIXELA_ENDPOINT ==
    <<"h","t","t","p","s",":","/","/","p","i","x","e",".","l","a",
      "/","v","1","/","u","s","e","r","s">>

Keys == {"USERNAME", "TOKEN", "GRAPH_ID"}

\* os.getenv(k)
getenv(k) == env[k]

USERNAME == getenv("USERNAME")

TOKEN == getenv("TOKEN")

\* os.getenv("GRAPH_ID", "graph1")
GRAPH_ID ==
    IF getenv("GRAPH_ID").set THEN getenv("GRAPH_ID").val
    ELSE <<"g","r","a","p","h","1">>

\* {"X-USER-TOKEN": TOKEN} if TOKEN else {}
HEADERS == IF Truthy(TOKEN) THEN [h \in {"X-USER-TOKEN"} |-> TOKEN.val] ELSE <<>>

HTTP_TIMEOUT == 15

USER_AGENT ==
    [h \in {"User-Agent"} |-> "PixelaHabitTracker/1.0 (+github.com/DEX-01-CODER)"]

Fatal == [tag |-> "fatal", gid |-> <<>>]

Resolved(g) == [tag |-> "ok", gid |-> g]

NotResolved == [tag |-> "none", gid |-> <<>>]

\* gid = (override or GRAPH_ID).strip() if (override or GRAPH_ID) else None
resolve_graph_id(override) ==
    LET chosen == IF Truthy(override) THEN override.val ELSE GRAPH_ID
        gid    == IF chosen # <<>> THEN Strip(chosen) ELSE <<>>
    IN  IF gid = <<>> THEN Fatal ELSE Resolved(gid)

\* A require_env that reports the first missing key only
MissingKeys_FirstOnly(keys) ==
    LET idx == {i \in 1..Len(keys) : ~Truthy(getenv(keys[i]))}
    IN  IF idx = {} THEN <<>> ELSE <<keys[CHOOSE i \in idx : \A j \in idx : i <= j]>>

RECURSIVE MissingKeys(_)
\* missing = [k for k in keys if not os.getenv(k)]
MissingKeys(keys) ==
    IF keys = <<>> THEN <<>>
    ELSE (IF Truthy(getenv(Head(keys))) THEN <<>> ELSE <<Head(keys)>>)
         \o MissingKeys(Tail(keys))

(* ------------------------------- dates ------------------------------- *)

IsLeap(y) == (y % 4 = 0 /\ y % 100 # 0) \/ y % 400 = 0

\* calendar.monthrange: the number of days of a month
DaysInMonth(y, m) ==
    IF m = 2 THEN (IF IsLeap(y) THEN 29 ELSE 28)
    ELSE IF m \in {4, 6, 9, 11} THEN 30 ELSE 31

RECURSIVE ToInt(_)
\* int(): decimal value of a digit string; surrounding blanks are ignored
ToInt(s) ==
    IF s = <<>> THEN 0
    ELSE IF IsSpace(s[Len(s)]) THEN ToInt(SubSeq(s, 1, Len(s) - 1))
    ELSE IF IsSpace(Head(s)) THEN ToInt(Tail(s))
    ELSE 10 * ToInt(SubSeq(s, 1, Len(s) - 1)) + DigitVal(s[Len(s)])

NonZeroDigit(c) == IsDigit(c) /\ c # "0"

\* %Y: (?P<Y>\d\d\d\d) at the start of the string
MatchY(s) == Len(s) >= 4 /\ \A i \in 1..4 : IsDigit(s[i])

\* %m: (?P<m>1[0-2]|0[1-9]|[1-9]), the two-character alternatives
MatchM2(s, p) ==
    /\ p + 1 <= Len(s)
    /\ \/ s[p] = "1" /\ s[p + 1] \in {"0", "1", "2"}
       \/ s[p] = "0" /\ NonZeroDigit(s[p + 1])

\* %m: the one-character alternative [1-9]
MatchM1(s, p) == p <= Len(s) /\ NonZeroDigit(s[p])

\* %d: (?P<d>3[0-1]|[1-2]\d|0[1-9]|[1-9]| [1-9]): the length of the first
\* alternative that matches at p, 0 when none does
MatchD(s, p) ==
    IF /\ p + 1 <= Len(s)
       /\ \/ s[p] = "3" /\ s[p + 1] \in {"0", "1"}
          \/ s[p] \in {"1", "2"} /\ IsDigit(s[p + 1])
          \/ s[p] = "0" /\ NonZeroDigit(s[p + 1])
    THEN 2
    ELSE IF p <= Len(s) /\ NonZeroDigit(s[p]) THEN 1
    ELSE IF p + 1 <= Len(s) /\ s[p] = " " /\ NonZeroDigit(s[p + 1]) THEN 2
    ELSE 0

\* The regex engine tries the month alternatives in order and backtracks to
\* the next one when no day alternative matches after it.
MatchMLen(s) ==
    IF MatchM2(s, 5) /\ MatchD(s, 7) > 0 THEN 2
    ELSE IF MatchM1(s, 5) /\ MatchD(s, 6) > 0 THEN 1
    ELSE 0

ValueError == [ok |-> FALSE, year |-> 0, month |-> 0, day |-> 0]

Date(y, m, d) == [ok |-> TRUE, year |-> y, month |-> m, day |-> d]

\* datetime.strptime(s, "%Y%m%d"): ValueError when the pattern does not match,
\* when unconverted data remains after the match, or when the fields are no
\* date (year 0, day out of range for the month)
strptime(s) ==
    IF ~MatchY(s) \/ MatchMLen(s) = 0 THEN ValueError
    ELSE LET ml == MatchMLen(s)
             dl == MatchD(s, 5 + ml)
             y  == ToInt(SubSeq(s, 1, 4))
             m  == ToInt(SubSeq(s, 5, 4 + ml))
             d  == ToInt(SubSeq(s, 5 + ml, 4 + ml + dl))
         IN  IF 4 + ml + dl # Len(s) THEN ValueError
             ELSE IF y < 1 \/ d > DaysInMonth(y, m) THEN ValueError
             ELSE Date(y, m, d)

RECURSIVE Decimal(_)
Decimal(n) == IF n < 10 THEN <<DigitChar(n)>> ELSE Decimal(n \div 10) \o <<DigitChar(n % 10)>>

TwoDigits(n) == <<DigitChar(n \div 10), DigitChar(n % 10)>>

FourDigits(n) == TwoDigits(n \div 100) \o TwoDigits(n % 100)

\* dt.strftime("%Y%m%d").  %m and %d are zero-padded.  %Y is what the C
\* library's strftime gives: zero-padded to four digits on some platforms
\* and the bare decimal year on others (padYear), which differ below 1000.
strftime(dt, padYear) ==
    (IF padYear THEN FourDigits(dt.year) ELSE Decimal(dt.year))
    \o TwoDigits(dt.month) \o TwoDigits(dt.day)

(* ------------------------------ messages ----------------------------- *)

NoMessage == [kind |-> "none", keys |-> <<>>, status |-> 0, detail |-> ""]

EnvError(missing) == [kind |-> "env", keys |-> missing, status |-> 0, detail |-> ""]

GraphIdError == [kind |-> "graph_id", keys |-> <<>>, status |-> 0, detail |-> ""]

DateFormatError == [kind |-> "date_format", keys |-> <<>>, status |-> 0, detail |-> ""]

HttpErrorMessage(status, detail) ==
    [kind |-> "http", keys |-> <<>>, status |-> status, detail |-> detail]

NetworkErrorMessage == [kind |-> "network", keys |-> <<>>, status |-> 0, detail |-> ""]

UsageError == [kind |-> "usage", keys |-> <<>>, status |-> 0, detail |-> ""]

(* ------------------------------- inputs ------------------------------ *)

UsernameValues == {None, Some(<<>>), Some(<<"u">>)}

TokenValues == {None, Some(<<>>), Some(<<"t">>)}

\* The most blanks put before and after a graph id
MaxPad == 1

Blanks(n) == [i \in 1..n |-> " "]

\* "", "g", " g", "g ", ...: the id, or nothing, between 0..MaxPad blanks
Padded(id) == {Blanks(i) \o core \o Blanks(j) : core \in {<<>>, id}, i \in 0..MaxPad, j \in 0..MaxPad}

\* GRAPH_ID of the environment: unset, or "g1" or nothing with blanks around it
GraphIdValues == {None} \cup {Some(x) : x \in Padded(<<"g", "1">>)}

\* --graph: not given, or "g2" or nothing with blanks around it
Overrides == {None} \cup {Some(x) : x \in Padded(<<"g", "2">>)}

YearStrings == {<<"2","0","2","4">>, <<"2","0","2","3">>, <<"0","9","9","9">>, <<"0","0","0","0">>}

MonthStrings == {<<"0","2">>, <<"2">>, <<"1","3">>, <<"0","0">>}

DayStrings ==
    {<<>>, <<"1">>, <<"0","1">>, <<" ","1">>, <<"2","9">>, <<"3","0">>, <<"3","2">>}

\* Date arguments: year, month and day pieces of every shape, and strings
\* that are no digits at all, too long, or empty.
DateStrings ==
    {y \o m \o d : y \in YearStrings, m \in MonthStrings, d \in DayStrings}
    \cup {<<>>,
          <<"2","0","2","4","0","2","2","9","0">>,
          <<"2","0","2","4","-","0","2","-","2","9">>,
          <<"2","0","2","4","0","2","2","x">>,
          <<"a","b","c","d","e","f","g","h">>}

\* datetime.now() of the run
Todays == {Date(2026, 11, 1), Date(2024, 2, 29)}

TypeChoices == {"int", "float"}

ColorChoices == {"shibafu", "momiji", "sora", "ichou", "ajisai", "kuro"}

TypeArgs == TypeChoices \cup {"double"}

ColorArgs == ColorChoices \cup {"red"}

Quantities == {"5"}

NoArgs ==
    [cmd |-> "none", name |-> "Habit Tracker", unit |-> "commit", gtype |-> "int",
     color |-> "sora", graph_id |-> None, date_str |-> None, quantity |-> ""]

\* The command lines of the five subcommands (build_parser's arguments and
\* defaults); update and delete take the date as a required positional.
Argvs ==
    {[NoArgs EXCEPT !.cmd = "create-user"]}
    \cup {[NoArgs EXCEPT !.cmd = "create-graph", !.gtype = t, !.color = c, !.graph_id = g] :
            t \in TypeArgs, c \in ColorArgs, g \in Overrides}
    \cup {[NoArgs EXCEPT !.cmd = "add", !.quantity = q, !.date_str = d, !.graph_id = g] :
            q \in Quantities, d \in {None} \cup {Some(x) : x \in DateStrings}, g \in Overrides}
    \cup {[NoArgs EXCEPT !.cmd = c, !.quantity = q, !.date_str = Some(d), !.graph_id = g] :
            c \in {"update", "delete"}, q \in Quantities, d \in DateStrings, g \in Overrides}

\* The remote service's answers
Statuses == {200, 204, 400, 404, 503}

Bodies == {"{\"message\":\"bad request\"}", "{\"isSuccess\":true}", "Service Unavailable", ""}

(* ----------------------------- api gateway --------------------------- *)

NoRequest == [method |-> "none"]

NoBody == [absent |-> TRUE]

NoResponse == [kind |-> "none", status |-> 0, text |-> ""]

\* api_call up to requests.request: the timeout default and the merged headers
Request(method, url, body, headers) ==
    [method |-> method, url |-> url, body |-> body,
     headers |-> headers @@ USER_AGENT, timeout |-> HTTP_TIMEOUT]

\* resp.raise_for_status(): HTTPError for a 4xx or 5xx status
RaisesForStatus(status) == status >= 400 /\ status < 600

\* resp.json(): whether the body parses, and str() of the parsed value
JsonParses(text) == text \in {"{\"message\":\"bad request\"}", "{\"isSuccess\":true}"}

JsonStr(text) ==
    CASE text = "{\"message\":\"bad request\"}" -> "{'message': 'bad request'}"
      [] text = "{\"isSuccess\":true}" -> "{'isSuccess': True}"

\* An error detail that is always the raw text
ErrorDetail_RawOnly(text) == text

\* try: detail = resp.json()  except Exception: detail = resp.text
ErrorDetail(text) == IF JsonParses(text) THEN JsonStr(text) ELSE text

BodyLine(text) == [kind |-> "body", text |-> text, url |-> <<>>]

\* f"Graph URL: https://pixe.la/v1/users/{USERNAME}/graphs/{gid}.html"
GraphUrlLine(gid) ==
    [kind |-> "graph_url", text |-> "",
     url |-> PIXELA_ENDPOINT \o <<"/">> \o USERNAME.val
             \o <<"/","g","r","a","p","h","s","/">> \o gid \o <<".","h","t","m","l">>]

\* raise SystemExit(message): the message goes to stderr, the exit status is 1
Abort(msg) ==
    /\ stderr' = msg
    /\ exitCode' = 1
    /\ pc' = "exited"
    /\ UNCHANGED <<env, args, request, sent, response, stdout>>

\* requests.request(method, url, ...): the request goes out
Send(req) ==
    /\ request' = req
    /\ sent' = sent + 1
    /\ pc' = "awaiting"
    /\ UNCHANGED <<env, args, response, stdout, stderr, exitCode>>

(* ------------------------------ operations --------------------------- *)

CreateUserKeys == <<"USERNAME", "TOKEN">>

CreateGraphKeys == <<"USERNAME", "TOKEN", "GRAPH_ID">>

\* An add that does not require GRAPH_ID of the environment
AddPixelKeys_NoGraphId == <<"USERNAME", "TOKEN">>

AddPixelKeys == <<"USERNAME", "TOKEN", "GRAPH_ID">>

UpdatePixelKeys == <<"USERNAME", "TOKEN", "GRAPH_ID">>

DeletePixelKeys == <<"USERNAME", "TOKEN", "GRAPH_ID">>

\* A graphs url that leaves the account out
GraphsUrl_NoAccount == PIXELA_ENDPOINT \o <<"/","g","r","a","p","h","s">>

GraphsUrl == PIXELA_ENDPOINT \o <<"/">> \o USERNAME.val \o <<"/","g","r","a","p","h","s">>

create_user ==
    /\ pc = "create-user"
    /\ UNCHANGED resolved
    /\ IF MissingKeys(CreateUserKeys) # <<>>
       THEN Abort(EnvError(MissingKeys(CreateUserKeys)))
       ELSE Send(Request("POST", PIXELA_ENDPOINT,
                         [token |-> TOKEN.val, username |-> USERNAME.val,
                          agreeTermsOfService |-> "yes", notMinor |-> "yes"],
                         <<>>))

create_graph ==
    /\ pc = "create-graph"
    /\ IF MissingKeys(CreateGraphKeys) # <<>>
       THEN Abort(EnvError(MissingKeys(CreateGraphKeys))) /\ UNCHANGED resolved
       ELSE /\ resolved' = resolve_graph_id(args.graph_id)
            /\ IF resolved'.tag = "fatal"
               THEN Abort(GraphIdError)
               ELSE Send(Request("POST", GraphsUrl,
                                 [id |-> resolved'.gid, name |-> args.name,
                                  unit |-> args.unit, type |-> args.gtype,
                                  color |-> args.color],
                                 HEADERS))

add_pixel ==
    /\ pc = "add"
    /\ IF MissingKeys(AddPixelKeys) # <<>>
       THEN Abort(EnvError(MissingKeys(AddPixelKeys))) /\ UNCHANGED resolved
       ELSE /\ resolved' = resolve_graph_id(args.graph_id)
            /\ IF resolved'.tag = "fatal"
               THEN Abort(GraphIdError)
               ELSE IF Truthy(args.date_str) /\ ~strptime(args.date_str.val).ok
               THEN Abort(DateFormatError)
               ELSE \E today \in Todays, padYear \in BOOLEAN :
                      LET dt == IF Truthy(args.date_str)
                                THEN strptime(args.date_str.val) ELSE today
                      IN  Send(Request("POST", GraphsUrl \o <<"/">> \o resolved'.gid,
                                       [date |-> strftime(dt, padYear),
                                        quantity |-> args.quantity],
                                       HEADERS))

update_pixel ==
    /\ pc = "update"
    /\ IF MissingKeys(UpdatePixelKeys) # <<>>
       THEN Abort(EnvError(MissingKeys(UpdatePixelKeys))) /\ UNCHANGED resolved
       ELSE /\ resolved' = resolve_graph_id(args.graph_id)
            /\ IF resolved'.tag = "fatal"
               THEN Abort(GraphIdError)
               ELSE IF ~strptime(args.date_str.val).ok
               THEN Abort(DateFormatError)
               ELSE Send(Request("PUT",
                                 GraphsUrl \o <<"/">> \o resolved'.gid
                                           \o <<"/">> \o args.date_str.val,
                                 [quantity |-> args.quantity],
                                 HEADERS))

delete_pixel ==
    /\ pc = "delete"
    /\ IF MissingKeys(DeletePixelKeys) # <<>>
       THEN Abort(EnvError(MissingKeys(DeletePixelKeys))) /\ UNCHANGED resolved
       ELSE /\ resolved' = resolve_graph_id(args.graph_id)
            /\ IF resolved'.tag = "fatal"
               THEN Abort(GraphIdError)
               ELSE IF ~strptime(args.date_str.val).ok
               THEN Abort(DateFormatError)
               ELSE Send(Request("DELETE",
                                 GraphsUrl \o <<"/">> \o resolved'.gid
                                           \o <<"/">> \o args.date_str.val,
                                 NoBody,
                                 HEADERS))

(* ---------------------- the answer to the request -------------------- *)

\* api_call returns resp; the operation prints resp.text (create_graph also
\* the viewer URL) and main returns: exit status 0
api_call_returns(status, text) ==
    /\ pc = "awaiting"
    /\ ~RaisesForStatus(status)
    /\ response' = [kind |-> "ok", status |-> status, text |-> text]
    /\ stdout' = IF args.cmd = "create-graph"
                 THEN <<BodyLine(text), GraphUrlLine(resolved.gid)>>
                 ELSE <<BodyLine(text)>>
    /\ exitCode' = 0
    /\ pc' = "exited"
    /\ UNCHANGED <<env, args, resolved, request, sent, stderr>>

\* An HTTP error that is answered by sending the request again
api_call_HTTPError_Retry(status, text) ==
    /\ pc = "awaiting"
    /\ RaisesForStatus(status)
    /\ response' = [kind |-> "http_error", status |-> status, text |-> text]
    /\ sent' = sent + 1
    /\ UNCHANGED <<env, pc, args, resolved, request, stdout, stderr, exitCode>>

\* An HTTP error whose body is printed before the abort
api_call_HTTPError_PrintsBody(status, text) ==
    /\ pc = "awaiting"
    /\ RaisesForStatus(status)
    /\ response' = [kind |-> "http_error", status |-> status, text |-> text]
    /\ stdout' = <<[kind |-> "body", text |-> text, url |-> <<>>]>>
    /\ stderr' = HttpErrorMessage(status, ErrorDetail(text))
    /\ exitCode' = 1
    /\ pc' = "exited"
    /\ UNCHANGED <<env, args, resolved, request, sent>>

\* except requests.HTTPError
api_call_HTTPError(status, text) ==
    /\ pc = "awaiting"
    /\ RaisesForStatus(status)
    /\ response' = [kind |-> "http_error", status |-> status, text |-> text]
    /\ stderr' = HttpErrorMessage(status, ErrorDetail(text))
    /\ exitCode' = 1
    /\ pc' = "exited"
    /\ UNCHANGED <<env, args, resolved, request, sent, stdout>>

\* except requests.RequestException: no response at all
api_call_RequestException ==
    /\ pc = "awaiting"
    /\ response' = [kind |-> "transport", status |-> 0, text |-> ""]
    /\ stderr' = NetworkErrorMessage
    /\ exitCode' = 1
    /\ pc' = "exited"
    /\ UNCHANGED <<env, args, resolved, request, sent, stdout>>

(* --------------------------------- CLI ------------------------------- *)

\* A parser without choices
ParseOk_NoChoices(argv) == TRUE

\* parser.parse_args(argv): argparse refuses a --type or --color outside the
\* choices of create-graph
ParseOk(argv) ==
    argv.cmd = "create-graph" => argv.gtype \in TypeChoices /\ argv.color \in ColorChoices

\* main: parse argv, then dispatch on args.cmd; argparse's error exits with 2
main ==
    /\ pc = "start"
    /\ \E argv \in Argvs :
         /\ args' = argv
         /\ IF ParseOk(argv)
            THEN /\ pc' = argv.cmd
                 /\ UNCHANGED <<stderr, exitCode>>
            ELSE /\ stderr' = UsageError
                 /\ exitCode' = 2
                 /\ pc' = "exited"
    /\ UNCHANGED <<env, resolved, request, sent, response, stdout>>

NoExit == -1

Init ==
    /\ env \in {[k \in Keys |-> CASE k = "USERNAME" -> u [] k = "TOKEN" -> t [] k = "GRAPH_ID" -> g] :
                  u \in UsernameValues, t \in TokenValues, g \in GraphIdValues}
    /\ pc = "start"
    /\ args = NoArgs
    /\ resolved = NotResolved
    /\ request = NoRequest
    /\ sent = 0
    /\ response = NoResponse
    /\ stdout = <<>>
    /\ stderr = NoMessage
    /\ exitCode = NoExit

Next ==
    \/ main
    \/ create_user
    \/ create_graph
    \/ add_pixel
    \/ update_pixel
    \/ delete_pixel
    \/ \E status \in Statuses, text \in Bodies : api_call_returns(status, text)
    \/ \E status \in Statuses, text \in Bodies : api_call_HTTPError(status, text)
    \/ api_call_RequestException

Spec == Init /\ [][Next]_vars

(* ------------------------- what the claims say ----------------------- *)

DateOps == {"add", "update", "delete"}

GraphOps == {"create-graph", "add", "update", "delete"}

\* The operation of the command line has run: it aborted or sent its request
OpRan == pc \in {"awaiting", "exited"} /\ exitCode # 2

\* A real calendar date written as exactly 8 digits YYYYMMDD
IsYYYYMMDD(s) ==
    /\ Len(s) = 8
    /\ \A i \in 1..8 : IsDigit(s[i])
    /\ LET y == ToInt(SubSeq(s, 1, 4))
           m == ToInt(SubSeq(s, 5, 6))
           d == ToInt(SubSeq(s, 7, 8))
       IN  y >= 1 /\ m \in 1..12 /\ d >= 1 /\ d <= DaysInMonth(y, m)

RECURSIVE LastSegment(_)
\* The characters of a url after its last "/"
LastSegment(url) ==
    IF url = <<>> \/ url[Len(url)] = "/" THEN <<>>
    ELSE LastSegment(SubSeq(url, 1, Len(url) - 1)) \o <<url[Len(url)]>>

\* A configuration key is missing: unset or empty
Absent(k) == ~env[k].set \/ env[k].val = <<>>

\* The required configuration of the operations table
RequiredConfig(cmd) == IF cmd = "create-user" THEN {"USERNAME", "TOKEN"} ELSE Keys

ConfigPresent == \A k \in Keys : ~Absent(k)

NonBlank(s) == \E i \in 1..Len(s) : s[i] # " "

\* C1: in add (with a date supplied: --date given and not empty), update and
\* delete, a date string that is not a real calendar date written as exactly
\* 8 digits makes the invocation abort with the date-format error (a
\* configuration error comes first when the configuration is bad) and no
\* request is sent.
C1_BadDateAborts ==
    (OpRan /\ args.cmd \in DateOps /\ args.date_str.set /\ ~IsYYYYMMDD(args.date_str.val)
       /\ (args.cmd = "add" => args.date_str.val # <<>>))
    => /\ sent = 0
       /\ pc = "exited"
       /\ stderr.kind \in {"env", "graph_id", "date_format"}

\* C2: with the configuration present, add, update and delete accept every
\* 8-digit real calendar date and the request carries that same string: the
\* body field date of add, the last path segment of update and delete.
C2_ValidDateForwarded ==
    (OpRan /\ args.cmd \in DateOps /\ args.date_str.set /\ IsYYYYMMDD(args.date_str.val)
       /\ ConfigPresent /\ resolved.tag = "ok")
    => /\ sent = 1
       /\ args.cmd = "add" => request.body.date = args.date_str.val
       /\ args.cmd \in {"update", "delete"} => LastSegment(request.url) = args.date_str.val

\* C3: resolve_graph_id returns the override when it is non-blank after
\* trimming, otherwise the environment default when that is non-blank after
\* trimming, and aborts only when both are absent or blank; the id returned
\* is never empty.
C3_ResolveGraphId ==
    resolved.tag # "none"
    => /\ resolved = IF NonBlank(args.graph_id.val) THEN Resolved(Strip(args.graph_id.val))
                     ELSE IF NonBlank(GRAPH_ID) THEN Resolved(Strip(GRAPH_ID))
                     ELSE Fatal
       /\ resolved.tag = "ok" => resolved.gid # <<>>

\* C4: for every operation and every subset of its required configuration
\* keys that is missing or empty: a non-empty subset aborts with one message
\* that lists exactly the missing keys and no request is sent; with the
\* empty subset require_env does not abort.
C4_MissingKeysListed ==
    LET miss == {k \in RequiredConfig(args.cmd) : Absent(k)}
    IN  OpRan
        => IF miss # {}
           THEN /\ stderr.kind = "env"
                /\ {stderr.keys[i] : i \in 1..Len(stderr.keys)} = miss
                /\ Len(stderr.keys) = Cardinality(miss)
                /\ sent = 0
                /\ pc = "exited"
                /\ exitCode = 1
           ELSE stderr.kind # "env"

C4_Witness ==
    /\ OpRan
    /\ args.cmd = "add"
    /\ {k \in Keys : Absent(k)} = {"USERNAME", "GRAPH_ID"}
    /\ stderr.kind = "env"
    /\ stderr.keys = <<"USERNAME", "GRAPH_ID">>

\* C5: an HTTP error status aborts with a message that holds the status code
\* and the error detail, the parsed body when the body parses as structured
\* data and the raw text otherwise; the response body is not handed on.
C5_HttpErrorMessage ==
    response.kind = "http_error"
    => /\ pc = "exited"
       /\ exitCode = 1
       /\ stderr.kind = "http"
       /\ stderr.status = response.status
       /\ response.text = "{\"message\":\"bad request\"}"
            => stderr.detail = "{'message': 'bad request'}"
       /\ response.text = "{\"isSuccess\":true}" => stderr.detail = "{'isSuccess': True}"
       /\ response.text \in {"Service Unavailable", ""} => stderr.detail = response.text
       /\ stdout = <<>>

C5_Witness ==
    /\ pc = "exited"
    /\ response = [kind |-> "http_error", status |-> 400,
                   text |-> "{\"message\":\"bad request\"}"]
    /\ stderr.status = 400
    /\ stderr.detail = "{'message': 'bad request'}"

\* C6: whatever the subcommand, arguments, configuration and remote outcome,
\* at most one HTTP request is issued; after a failed request no second one
\* is sent and the invocation has ended.
C6_AtMostOneRequest ==
    /\ sent <= 1
    /\ response.kind # "none" => sent = 1 /\ pc = "exited"
    /\ pc = "exited" => ~ENABLED Next

C6_Witness ==
    /\ response.kind \in {"http_error", "transport"}
    /\ sent = 1
    /\ pc = "exited"
    /\ exitCode = 1

RECURSIVE UnderUsers(_)
\* The users base path followed by the given path segments
UnderUsers(segments) ==
    IF segments = <<>> THEN PIXELA_ENDPOINT
    ELSE UnderUsers(SubSeq(segments, 1, Len(segments) - 1))
         \o <<"/">> \o segments[Len(segments)]

Account == env["USERNAME"].val

Graphs == <<"g","r","a","p","h","s">>

\* C7: each operation sends its request with the method, path and body of
\* the operations table, with the configured account name as {account} and
\* the resolved graph id as {graphId} and as the body's id.
C7_RequestsMatchTable ==
    sent > 0
    => /\ args.cmd = "create-user"
            => /\ request.method = "POST"
               /\ request.url = UnderUsers(<<>>)
               /\ request.body = [token |-> env["TOKEN"].val, username |-> Account,
                                  agreeTermsOfService |-> "yes", notMinor |-> "yes"]
       /\ args.cmd = "create-graph"
            => /\ request.method = "POST"
               /\ request.url = UnderUsers(<<Account, Graphs>>)
               /\ request.body = [id |-> resolved.gid, name |-> args.name, unit |-> args.unit,
                                  type |-> args.gtype, color |-> args.color]
       /\ args.cmd = "add"
            => /\ request.method = "POST"
               /\ request.url = UnderUsers(<<Account, Graphs, resolved.gid>>)
               /\ DOMAIN request.body = {"date", "quantity"}
               /\ request.body.quantity = args.quantity
               /\ Len(request.body.date) <= 8
               /\ \A i \in 1..Len(request.body.date) : IsDigit(request.body.date[i])
               /\ args.date_str.val = <<>>
                    => request.body.date \in {<<"2","0","2","6","1","1","0","1">>,
                                              <<"2","0","2","4","0","2","2","9">>}
       /\ args.cmd = "update"
            => /\ request.method = "PUT"
               /\ request.url = UnderUsers(<<Account, Graphs, resolved.gid, args.date_str.val>>)
               /\ request.body = [quantity |-> args.quantity]
       /\ args.cmd = "delete"
            => /\ request.method = "DELETE"
               /\ request.url = UnderUsers(<<Account, Graphs, resolved.gid, args.date_str.val>>)
               /\ request.body = NoBody

C7_Witness ==
    /\ sent = 1
    /\ args.cmd = "update"
    /\ request.method = "PUT"
    /\ resolved.gid = <<"g", "2">>
    /\ LastSegment(request.url) = <<"2","0","2","4","0","2","2","9">>

\* C8: an invocation ends in one of two ways: after a successful status the
\* raw response body is on standard output and the exit status is 0; after a
\* configuration, validation, HTTP or transport error the exit status is not
\* 0 and nothing is on standard output (for create-graph no viewer URL).
C8_TwoOutcomes ==
    /\ pc # "exited" => stdout = <<>> /\ exitCode = NoExit
    /\ pc = "exited"
         => IF response.kind = "ok"
            THEN /\ exitCode = 0
                 /\ stderr = NoMessage
                 /\ stdout # <<>>
                 /\ stdout[1] = [kind |-> "body", text |-> response.text, url |-> <<>>]
                 /\ \A i \in 2..Len(stdout) :
                        args.cmd = "create-graph" /\ i = 2 /\ stdout[i].kind = "graph_url"
            ELSE /\ exitCode \in {1, 2}
                 /\ stderr # NoMessage
                 /\ stdout = <<>>

C8_Witness ==
    /\ pc = "exited"
    /\ args.cmd = "create-graph"
    /\ response.kind = "http_error"
    /\ exitCode = 1
    /\ stdout = <<>>

\* C9: every create-graph request that is sent has a type in {int, float}
\* and a color of the six; a create-graph invocation with a type or color
\* outside these sets is rejected and sends no request.
C9_GraphEnumerations ==
    args.cmd = "create-graph"
    => /\ sent > 0 => /\ request.body.type \in {"int", "float"}
                      /\ request.body.color \in
                           {"shibafu", "momiji", "sora", "ichou", "ajisai", "kuro"}
       /\ (\/ args.gtype \notin {"int", "float"}
           \/ args.color \notin {"shibafu", "momiji", "sora", "ichou", "ajisai", "kuro"})
            => pc = "exited" /\ sent = 0 /\ exitCode = 2 /\ stdout = <<>>

C9_Witness ==
    /\ args.cmd = "create-graph"
    /\ args.color = "red"
    /\ args.gtype = "int"
    /\ ConfigPresent
    /\ pc = "exited"
    /\ exitCode = 2

====
